---- MODULE Spec2Model ----
(***************************************************************************)
(* Model of compiler/rustc_codegen_ssa/src/back/archive.rs:                *)
(* ArArchiveBuilder (add_file, add_archive, build/build_inner) and the     *)
(* Mach-O fat archive extraction that add_archive runs on macOS targets.   *)
(*                                                                         *)
(* Paths are sequences of components.  A file's bytes are a record         *)
(* describing what the parsers of the `object` crate see in them.          *)
(* Fields named g_* and the variables `last`, `added`, `prior`, `rmFailed` *)
(* `failedAt`, `files` and `kept` are history information used only by the *)
(* properties.                                                             *)
(***************************************************************************)
EXTENDS Integers, Sequences, FiniteSets, TLC

\* ------------------------------------------------------------------ bounds
MaxCalls == 3

\* ------------------------------------------------------- files and contents
Last(s) == s[Len(s)]

Member(n, off, u, r) ==
    [name |-> n, file_range |-> <<off, 10>>, utf8 |-> u, readable |-> r]

File(t, i, ms, as) ==
    [type |-> t, id |-> i, members |-> ms, arches |-> as, complete |-> TRUE]

Absent == [type |-> "absent", id |-> "", members |-> <<>>, arches |-> <<>>,
           complete |-> TRUE]

ArA == File("ar", "A", <<Member("m1", 0, TRUE, TRUE),
                         Member("lib.rmeta", 10, TRUE, TRUE)>>, <<>>)
\* second member's name is not valid UTF-8
ArB == File("ar", "B", <<Member("m2", 0, TRUE, TRUE),
                         Member("bad", 10, FALSE, TRUE),
                         Member("m1", 20, TRUE, TRUE)>>, <<>>)
ArX == File("ar", "X", <<Member("m1", 0, TRUE, TRUE)>>, <<>>)
ArY == File("ar", "Y", <<Member("m2", 0, TRUE, TRUE),
                         Member("m1", 10, TRUE, TRUE)>>, <<>>)
ArZ == File("ar", "Z", <<Member("m2", 0, TRUE, TRUE)>>, <<>>)

\* the third member's header cannot be read
ArC == File("ar", "C", <<Member("m2", 0, TRUE, TRUE),
                         Member("m1", 10, TRUE, TRUE),
                         Member("m3", 20, TRUE, FALSE),
                         Member("lib.rmeta", 30, TRUE, TRUE)>>, <<>>)

Slice(a, d) == [arch |-> a, data |-> d]

\* a 32-bit fat container: two slices for aarch64, one for another arch
Fat32 == File("fat32", "F", <<>>,
              <<Slice("Arm", ArX), Slice("Aarch64", ArY), Slice("Aarch64", ArZ)>>)
\* a 64-bit fat container without an aarch64 slice
Fat64 == File("fat64", "G", <<>>, <<Slice("X86_64", ArX)>>)

ObjX == File("obj", "x", <<>>, <<>>)
ObjY == File("obj", "y", <<>>, <<>>)

ArchivePaths == {<<"libA.a">>, <<"deps", "libB.a">>, <<"fat.a">>,
                 <<"fat64.a">>, <<"gone.a">>}
\* the third file exists only once a slice of fat.a has been extracted to it
FilePaths    == {<<"x.o">>, <<"d", "x.o">>, <<"tmp", "t1", "fat.a">>,
                 <<"d", "..">>}
OutputPaths  == {<<"out.a">>, <<"libA.a">>}
TempNames    == <<"t1", "t2", "t3", "t4", "t5">>

InitFs == (<<"libA.a">> :> ArA) @@ (<<"deps", "libB.a">> :> ArB)
          @@ (<<"fat.a">> :> Fat32) @@ (<<"fat64.a">> :> Fat64)
          @@ (<<"x.o">> :> ObjX) @@ (<<"d", "x.o">> :> ObjY)
          @@ (<<"libC.rlib">> :> ArC)

ReadFile(f, p) == IF p \in DOMAIN f THEN f[p] ELSE Absent

\* the skip closures handed to add_archive: the set of names they reject
Skips == {{}, {"m1"}}

\* ------------------------------------------------------------------ targets
Target(t, a, f) == [llvm_target |-> t, arch |-> a, archive_format |-> f]

Targets == {
    Target(<<"arm64", "apple", "macosx">>, "aarch64", "darwin"),
    Target(<<"i686", "apple", "macosx">>, "x86", "darwin"),
    Target(<<"x86_64", "unknown", "linux", "gnu">>, "x86_64", "gnu"),
    Target(<<"x86_64", "unknown", "freebsd">>, "x86_64", "bsd"),
    Target(<<"arm64ec", "pc", "windows", "msvc">>, "arm64ec", "coff"),
    Target(<<"powerpc64", "ibm", "aix">>, "powerpc64", "aix_big"),
    Target(<<"x86_64", "apple", "macosx">>, "x86_64", "elf") }

\* llvm_target.contains("-apple-macosx")
IsAppleMacosx(t) ==
    \E i \in 1 .. (Len(t.llvm_target) - 1) :
        t.llvm_target[i] = "apple" /\ t.llvm_target[i + 1] = "macosx"

VARIABLES
    sess,           \* the target options of the session
    fs,             \* input files and extracted temporary files, by path
    src_archives,   \* Vec<(PathBuf, Mmap)>
    entries,        \* Vec<(Vec<u8>, ArchiveEntry)>
    pc,             \* position of the session's owner
    ncalls,         \* number of add_file / add_archive calls made
    ntemp,          \* number of temporary files created by tempfile
    last,           \* the last add_* call and what it returned
    added,          \* paths for which add_archive has returned Ok
    files,          \* the paths of the add_file calls that have returned
    kept,           \* number of members let through by skip, summed over
                    \* the calls that retained a new archive
    output,         \* build's output path
    prior,          \* contents of the output path when build was called
    members,        \* build_inner's local `entries`: Vec<NewArchiveMember>
    tmpdir,         \* the ".temp-archive" directory: "absent" | "present"
    tmpfile,        \* tmp.a inside it
    any_entries,    \* build_inner's local of that name
    rmFailed,       \* a removal of the temporary directory has failed
    failedAt,       \* the step of build that failed, "none" if none has
    result,         \* what build returned: "none" until it returns
    libs            \* the call of extract_bundled_libs, see NoLibs

vars == <<sess, fs, src_archives, entries, pc, ncalls, ntemp, last, added,
          files, kept, output, prior, members, tmpdir, tmpfile, any_entries, rmFailed,
          failedAt, result, libs>>

buildVars == <<output, prior, members, tmpdir, tmpfile, any_entries,
               rmFailed, failedAt, result>>

NoCall == [op |-> "none", path |-> <<>>, skip |-> {}, result |-> "none",
           effective |-> <<>>, extract |-> "none", fresh |-> FALSE,
           asked |-> <<>>, canOpen |-> TRUE]

NoFile == [state |-> "none", members |-> <<>>]

\* extract_bundled_libs: its arguments, the member the loop is at, the files
\* written so far and what it returned
NoLibs == [pc |-> "idle", rlib |-> <<>>, names |-> {}, pos |-> 0,
           out |-> <<>>, error |-> "none"]

\* ------------------------------------------------------------------ entries
FromArchive(n, idx, range, from) ==
    [name |-> n, kind |-> "FromArchive", archive_index |-> idx,
     file_range |-> range, path |-> <<>>, g_from |-> from]

FileEntry(n, p) ==
    [name |-> n, kind |-> "File", archive_index |-> 0,
     file_range |-> <<0, 0>>, path |-> p, g_from |-> <<>>]

\* a push at the wrong end
Push_front(v, e) == <<e>> \o v

\* Vec::push
Push(v, e) == Append(v, e)

\* Path::file_name: None when the path terminates in ".."
HasFileName(p) == Len(p) > 0 /\ Last(p) # ".."

\* the first component taken for the name
FileName_first(p) == p[1]

FileName(p) == Last(p)

Init ==
    /\ sess \in Targets
    /\ fs = InitFs
    /\ src_archives = <<>>
    /\ entries = <<>>
    /\ pc = "accumulating"
    /\ ncalls = 0
    /\ ntemp = 0
    /\ last = NoCall
    /\ added = {}
    /\ files = <<>>
    /\ kept = 0
    /\ output = <<>>
    /\ prior = Absent
    /\ members = <<>>
    /\ tmpdir = "absent"
    /\ tmpfile = NoFile
    /\ any_entries = FALSE
    /\ rmFailed = FALSE
    /\ failedAt = "none"
    /\ result = "none"
    /\ libs = NoLibs

\* ----------------------------------------------------------------- add_file
AddFile ==
    /\ pc = "accumulating"
    /\ ncalls < MaxCalls
    /\ \E file \in FilePaths :
        IF HasFileName(file)
        THEN /\ entries' = Push(entries, FileEntry(FileName(file), file))
             /\ last' = [NoCall EXCEPT !.op = "add_file", !.path = file,
                                       !.result = "ok"]
             /\ files' = Append(files, file)
             /\ pc' = pc
        ELSE \* file.file_name().unwrap() panics
             /\ entries' = entries
             /\ last' = [NoCall EXCEPT !.op = "add_file", !.path = file,
                                       !.result = "panic"]
             /\ files' = files
             /\ pc' = "panic"
    /\ ncalls' = ncalls + 1
    /\ UNCHANGED <<sess, fs, src_archives, ntemp, added, kept>>
    /\ UNCHANGED buildVars
    /\ UNCHANGED libs

\* ------------------------------------------------- Mach-O fat extraction
\* match sess.target.arch.as_ref() { "aarch64" => .., "x86_64" => .., _ => None }
TargetArch(arch) ==
    CASE arch = "aarch64" -> "Aarch64"
      [] arch = "x86_64"  -> "X86_64"
      [] OTHER            -> "none"

\* the last matching slice instead of the first
FindArch_last(archs, target_arch) ==
    IF \E i \in 1 .. Len(archs) : archs[i].arch = target_arch
    THEN CHOOSE i \in 1 .. Len(archs) :
            /\ archs[i].arch = target_arch
            /\ \A j \in (i + 1) .. Len(archs) : archs[j].arch # target_arch
    ELSE 0

\* archs.iter().find(|a| a.architecture() == target_arch): index, 0 for None
FindArch(archs, target_arch) ==
    IF \E i \in 1 .. Len(archs) : archs[i].arch = target_arch
    THEN CHOOSE i \in 1 .. Len(archs) :
            /\ archs[i].arch = target_arch
            /\ \A j \in 1 .. (i - 1) : archs[j].arch # target_arch
    ELSE 0

\* the path tempfile gives the kept file: a fresh name ending in the suffix
TempPath(n, suffix) == <<"tmp", TempNames[n], suffix>>

Truncated == [type |-> "junk", id |-> "truncated", members |-> <<>>,
              arches |-> <<>>, complete |-> FALSE]

\* io is the outcome of the temporary file's I/O: "ok", "create_fail"
\* (tempfile() fails) or "write_fail" (data() or write_all fails)
TryFilterFatArchs(archs, target_arch, archive_path, f, n, io) ==
    LET i == FindArch(archs, target_arch)
        p == TempPath(n + 1, FileName(archive_path))
    IN  IF i = 0
        THEN [res |-> "none", path |-> <<>>, fs |-> f, ntemp |-> n]
        ELSE IF io = "create_fail"
        THEN [res |-> "err", path |-> <<>>, fs |-> f, ntemp |-> n]
        ELSE IF io = "write_fail"
        THEN [res |-> "err", path |-> <<>>, fs |-> (p :> Truncated) @@ f,
              ntemp |-> n + 1]
        ELSE [res |-> "some", path |-> p, fs |-> (p :> archs[i].data) @@ f,
              ntemp |-> n + 1]

\* File::open followed by Mmap::map
Openable(f, p, canOpen) == p \in DOMAIN f /\ canOpen

TryExtractMachoFatArchive(t, archive_path, f, n, canOpen, io) ==
    IF ~Openable(f, archive_path, canOpen)
    THEN [res |-> "err", path |-> <<>>, fs |-> f, ntemp |-> n]
    ELSE IF TargetArch(t.arch) = "none"
    THEN [res |-> "none", path |-> <<>>, fs |-> f, ntemp |-> n]
    ELSE IF f[archive_path].type = "fat32"
    THEN TryFilterFatArchs(f[archive_path].arches, TargetArch(t.arch),
                           archive_path, f, n, io)
    ELSE IF f[archive_path].type = "fat64"
    THEN TryFilterFatArchs(f[archive_path].arches, TargetArch(t.arch),
                           archive_path, f, n, io)
    ELSE [res |-> "none", path |-> <<>>, fs |-> f, ntemp |-> n]

\* -------------------------------------------------------------- add_archive
\* the answer of skip taken the wrong way round
SkipCall_negated(skip, file_name) == file_name \notin skip

\* the call skip(&file_name)
SkipCall(skip, file_name) == file_name \in skip

\* the duplicate check finding nothing
AlreadyAdded_never(archs, archive_path) == FALSE

\* self.src_archives.iter().any(|archive| archive.0 == archive_path)
AlreadyAdded(archs, archive_path) ==
    \E i \in 1 .. Len(archs) : archs[i].path = archive_path

\* the loop calling skip a second time when it pushes
RECURSIVE WalkMembers_twice(_, _, _, _, _, _)
WalkMembers_twice(ms, i, skip, archive_index, from, acc) ==
    IF i > Len(ms)
    THEN [entries |-> acc.entries, asked |-> acc.asked, ok |-> TRUE]
    ELSE IF ~ms[i].readable \/ ~ms[i].utf8
    THEN [entries |-> acc.entries, asked |-> acc.asked, ok |-> FALSE]
    ELSE WalkMembers_twice(ms, i + 1, skip, archive_index, from,
            [entries |-> IF ~SkipCall(skip, ms[i].name)
                         THEN Push(acc.entries,
                                   FromArchive(ms[i].name, archive_index,
                                               ms[i].file_range, from))
                         ELSE acc.entries,
             asked |-> IF ~SkipCall(skip, ms[i].name)
                       THEN acc.asked \o <<ms[i].name, ms[i].name>>
                       ELSE Append(acc.asked, ms[i].name)])

\* the loop over archive.members(); acc is [entries, asked]
RECURSIVE WalkMembers(_, _, _, _, _, _)
WalkMembers(ms, i, skip, archive_index, from, acc) ==
    IF i > Len(ms)
    THEN [entries |-> acc.entries, asked |-> acc.asked, ok |-> TRUE]
    ELSE IF ~ms[i].readable \/ ~ms[i].utf8
    THEN [entries |-> acc.entries, asked |-> acc.asked, ok |-> FALSE]
    ELSE WalkMembers(ms, i + 1, skip, archive_index, from,
            [entries |-> IF ~SkipCall(skip, ms[i].name)
                         THEN Push(acc.entries,
                                   FromArchive(ms[i].name, archive_index,
                                               ms[i].file_range, from))
                         ELSE acc.entries,
             asked |-> Append(acc.asked, ms[i].name)])

\* the index the new archive's entries carry
NewArchiveIndex(archs) == Len(archs)

\* self.src_archives.push((archive_path, archive_map))
Retain(archs, archive_path, map) ==
    Append(archs, [path |-> archive_path, map |-> map])

\* Vec indices start at 0
ArchiveAt(archs, archive_index) == archs[archive_index + 1]

\* the archive retained as soon as it is mapped, before it is parsed
AddEffective_early(es, archs, f, archive_path, skip, canOpen) ==
    LET walk == WalkMembers(f[archive_path].members, 1, skip,
                            NewArchiveIndex(archs), archive_path,
                            [entries |-> es, asked |-> <<>>])
        same(r) == [entries |-> es, src_archives |-> archs, result |-> r,
                    fresh |-> FALSE, asked |-> <<>>]
    IN  IF AlreadyAdded(archs, archive_path) THEN same("ok")
        ELSE IF ~Openable(f, archive_path, canOpen) THEN same("err")
        ELSE IF f[archive_path].type # "ar"
        THEN [entries |-> es,
              src_archives |-> Retain(archs, archive_path, f[archive_path]),
              result |-> "err", fresh |-> FALSE, asked |-> <<>>]
        ELSE IF walk.ok
        THEN [entries |-> walk.entries,
              src_archives |-> Retain(archs, archive_path, f[archive_path]),
              result |-> "ok", fresh |-> TRUE, asked |-> walk.asked]
        ELSE [entries |-> walk.entries,
              src_archives |-> Retain(archs, archive_path, f[archive_path]),
              result |-> "err", fresh |-> FALSE, asked |-> walk.asked]

\* add_archive from the duplicate check on, for the effective path:
\* what becomes of entries and src_archives, and what is returned
AddEffective(es, archs, f, archive_path, skip, canOpen) ==
    LET walk == WalkMembers(f[archive_path].members, 1, skip,
                            NewArchiveIndex(archs), archive_path,
                            [entries |-> es, asked |-> <<>>])
        same(r) == [entries |-> es, src_archives |-> archs, result |-> r,
                    fresh |-> FALSE, asked |-> <<>>]
    IN  IF AlreadyAdded(archs, archive_path) THEN same("ok")
        ELSE IF ~Openable(f, archive_path, canOpen) THEN same("err")
        ELSE IF f[archive_path].type # "ar"
        THEN same("err")    \* ArchiveFile::parse fails
        ELSE IF walk.ok
        THEN [entries |-> walk.entries,
              src_archives |-> Retain(archs, archive_path, f[archive_path]),
              result |-> "ok", fresh |-> TRUE, asked |-> walk.asked]
        ELSE [entries |-> walk.entries, src_archives |-> archs,
              result |-> "err", fresh |-> FALSE, asked |-> walk.asked]

\* the members of an archive a skip closure lets through, in container order
Kept(ms, skip) ==
    LET keep(m) == m.name \notin skip IN SelectSeq(ms, keep)

ExtractIO == {"ok", "create_fail", "write_fail"}

AddArchive ==
    /\ pc = "accumulating"
    /\ ncalls < MaxCalls
    /\ \E archive_path \in ArchivePaths, skip \in Skips,
          canOpen \in BOOLEAN, io \in ExtractIO :
        LET ex == IF IsAppleMacosx(sess)
                  THEN TryExtractMachoFatArchive(sess, archive_path, fs,
                                                 ntemp, canOpen, io)
                  ELSE [res |-> "none", path |-> <<>>, fs |-> fs,
                        ntemp |-> ntemp]
            eff == IF ex.res = "some" THEN ex.path ELSE archive_path
            call == [NoCall EXCEPT !.op = "add_archive",
                                   !.path = archive_path, !.skip = skip,
                                   !.effective = eff, !.extract = ex.res,
                                   !.canOpen = canOpen]
            r == AddEffective(entries, src_archives, ex.fs, eff, skip,
                              canOpen)
        IN  /\ fs' = ex.fs
            /\ ntemp' = ex.ntemp
            /\ IF ex.res = "err"
               THEN /\ last' = [call EXCEPT !.result = "err"]
                    /\ UNCHANGED <<entries, src_archives, added, kept>>
               ELSE /\ entries' = r.entries
                    /\ src_archives' = r.src_archives
                    /\ last' = [call EXCEPT !.result = r.result,
                                            !.fresh = r.fresh,
                                            !.asked = r.asked]
                    /\ added' = IF r.result = "ok"
                                THEN added \cup {archive_path} ELSE added
                    /\ kept' = IF r.fresh
                               THEN kept + Len(Kept(ex.fs[eff].members, skip))
                               ELSE kept
    /\ ncalls' = ncalls + 1
    /\ pc' = pc
    /\ sess' = sess
    /\ files' = files
    /\ UNCHANGED buildVars
    /\ UNCHANGED libs

\* -------------------------------------------------------------------- build
\* an unrecognized format falling back to a default kind
ArchiveKind_default(archive_format) ==
    CASE archive_format = "bsd"     -> "Bsd"
      [] archive_format = "darwin"  -> "Darwin"
      [] archive_format = "coff"    -> "Coff"
      [] archive_format = "aix_big" -> "AixBig"
      [] OTHER                      -> "Gnu"

\* match &*self.sess.target.archive_format { ... }
ArchiveKind(archive_format) ==
    CASE archive_format = "gnu"     -> "Gnu"
      [] archive_format = "bsd"     -> "Bsd"
      [] archive_format = "darwin"  -> "Darwin"
      [] archive_format = "coff"    -> "Coff"
      [] archive_format = "aix_big" -> "AixBig"
      [] OTHER                      -> "fatal"

\* the bytes a member is built from: a range of a mapped file
Buf(map, range, p, own) ==
    [of |-> map.id, range |-> range, path |-> p, owned |-> own]

\* the mode tempfile gives its files, 0o600
NewArchiveMember_private(n, b) ==
    [member_name |-> n, buf |-> b, mtime |-> 0, uid |-> 0, gid |-> 0,
     perms |-> 384]

NewArchiveMember(n, b) ==
    [member_name |-> n, buf |-> b, mtime |-> 0, uid |-> 0, gid |-> 0,
     perms |-> 420]

\* the loop over self.entries
RECURSIVE Resolve(_, _, _, _, _, _)
Resolve(es, i, archs, f, canOpen, acc) ==
    IF i > Len(es)
    THEN [res |-> "ok", members |-> acc]
    ELSE IF es[i].kind = "FromArchive"
    THEN IF es[i].archive_index >= Len(archs)
         THEN \* self.src_archives[archive_index] is out of bounds
              [res |-> "panic", members |-> acc]
         ELSE Resolve(es, i + 1, archs, f, canOpen,
                Push(acc, NewArchiveMember(es[i].name,
                    Buf(ArchiveAt(archs, es[i].archive_index).map,
                        es[i].file_range,
                        ArchiveAt(archs, es[i].archive_index).path, FALSE))))
    ELSE IF ~Openable(f, es[i].path, canOpen)
         THEN [res |-> "err", members |-> acc]
         ELSE Resolve(es, i + 1, archs, f, canOpen,
                Push(acc, NewArchiveMember(es[i].name,
                    Buf(f[es[i].path], <<0, 0>>, es[i].path, TRUE))))

\* the paths of the files the session holds a memory map of
HeldMaps ==
    {src_archives[i].path : i \in 1 .. Len(src_archives)}
    \cup {members[i].buf.path : i \in {j \in 1 .. Len(members) :
                                           members[j].buf.owned}}

\* the archive the encoder has produced from the members handed to it
Written(t) ==
    [type |-> "ar", id |-> "out", members |-> t.members, arches |-> <<>>,
     complete |-> (t.state = "complete")]

\* the temporary directory kept on the error paths
Abort_leak(to, at) ==
    /\ pc' = to
    /\ failedAt' = at
    /\ members' = <<>>
    /\ src_archives' = <<>>
    /\ result' = "fatal"
    /\ UNCHANGED <<tmpdir, tmpfile, rmFailed>>

\* build_inner returns Err (build then calls emit_fatal) or a fatal error is
\* emitted: the locals are dropped, the TempDir's Drop removes the directory
\* and ignores a failure to do so
Abort(to, at) ==
    /\ pc' = to
    /\ failedAt' = at
    /\ members' = <<>>
    /\ src_archives' = <<>>
    /\ result' = "fatal"
    /\ IF tmpdir = "present"
       THEN \E removed \in BOOLEAN :
               IF removed
               THEN tmpdir' = "absent" /\ tmpfile' = NoFile
                    /\ rmFailed' = rmFailed
               ELSE tmpdir' = tmpdir /\ tmpfile' = tmpfile
                    /\ rmFailed' = TRUE
       ELSE UNCHANGED <<tmpdir, tmpfile, rmFailed>>

sessVars == <<sess, entries, ncalls, ntemp, last, added, files, kept>>

\* build is called; build_inner resolves the kind and the entries
BuildResolve ==
    /\ pc = "accumulating"
    /\ \E out \in OutputPaths, canOpen \in BOOLEAN :
        LET r == Resolve(entries, 1, src_archives, fs, canOpen, <<>>)
        IN  /\ output' = out
            /\ prior' = ReadFile(fs, out)
            /\ IF ArchiveKind(sess.archive_format) = "fatal"
               THEN Abort("fatal", "kind")
               ELSE IF r.res = "panic" THEN Abort("panic", "resolve")
               ELSE IF r.res = "err" THEN Abort("fatal", "resolve")
               ELSE /\ members' = r.members
                    /\ pc' = "tempdir"
                    /\ UNCHANGED <<src_archives, tmpdir, tmpfile, rmFailed,
                                   failedAt, result>>
    /\ UNCHANGED <<fs, any_entries>>
    /\ UNCHANGED sessVars
    /\ UNCHANGED libs

\* TempFileBuilder::new().suffix(".temp-archive").tempdir_in(parent)
BuildTempDir ==
    /\ pc = "tempdir"
    /\ \E ok \in BOOLEAN :
        IF ok
        THEN /\ tmpdir' = "present"
             /\ pc' = "create"
             /\ UNCHANGED <<src_archives, members, tmpfile, rmFailed, failedAt,
                    result>>
        ELSE Abort("fatal", "tempdir")
    /\ UNCHANGED <<fs, output, prior, any_entries>>
    /\ UNCHANGED sessVars
    /\ UNCHANGED libs

\* File::create_new(&archive_tmpfile_path)
BuildCreate ==
    /\ pc = "create"
    /\ \E ok \in BOOLEAN :
        IF ok
        THEN /\ tmpfile' = [state |-> "empty", members |-> <<>>]
             /\ pc' = "write"
             /\ UNCHANGED <<src_archives, members, tmpdir, rmFailed, failedAt,
                    result>>
        ELSE Abort("fatal", "create")
    /\ UNCHANGED <<fs, output, prior, any_entries>>
    /\ UNCHANGED sessVars
    /\ UNCHANGED libs

\* the encoder streaming into the output path itself
BuildWrite_inplace ==
    /\ pc = "write"
    /\ tmpfile.state = "empty"
    /\ tmpfile' = [state |-> "partial", members |-> members]
    /\ fs' = (output :> [type |-> "ar", id |-> "out", members |-> members,
                         arches |-> <<>>, complete |-> FALSE]) @@ fs
    /\ UNCHANGED <<src_archives, pc, output, prior, members, tmpdir,
                   any_entries, rmFailed, failedAt, result>>
    /\ UNCHANGED sessVars
    /\ UNCHANGED libs

\* write_archive_to_stream has written a part of the archive
BuildWrite ==
    /\ pc = "write"
    /\ tmpfile.state = "empty"
    /\ tmpfile' = [state |-> "partial", members |-> members]
    /\ UNCHANGED <<fs, src_archives, pc, output, prior, members, tmpdir,
                   any_entries, rmFailed, failedAt, result>>
    /\ UNCHANGED sessVars
    /\ UNCHANGED libs

\* write_archive_to_stream returns
BuildWritten ==
    /\ pc = "write"
    /\ tmpfile.state = "partial"
    /\ \E ok \in BOOLEAN :
        IF ok
        THEN /\ tmpfile' = [state |-> "complete", members |-> members]
             /\ pc' = "drop"
             /\ UNCHANGED <<src_archives, members, tmpdir, rmFailed, failedAt,
                    result>>
        ELSE Abort("fatal", "write")
    /\ UNCHANGED <<fs, output, prior, any_entries>>
    /\ UNCHANGED sessVars
    /\ UNCHANGED libs

\* the maps released only after the rename
BuildDrop_late ==
    /\ pc = "drop"
    /\ any_entries' = (members # <<>>)
    /\ pc' = "rename"
    /\ UNCHANGED <<fs, src_archives, members, output, prior, tmpdir, tmpfile,
                   rmFailed, failedAt, result>>
    /\ UNCHANGED sessVars
    /\ UNCHANGED libs

\* any_entries taken from the source archives instead of the members
BuildDrop_archives ==
    /\ pc = "drop"
    /\ any_entries' = (src_archives # <<>>)
    /\ members' = <<>>
    /\ src_archives' = <<>>
    /\ pc' = "rename"
    /\ UNCHANGED <<fs, output, prior, tmpdir, tmpfile, rmFailed, failedAt,
                   result>>
    /\ UNCHANGED sessVars
    /\ UNCHANGED libs

\* let any_entries = ..; drop(entries); drop(self.src_archives)
BuildDrop ==
    /\ pc = "drop"
    /\ any_entries' = (members # <<>>)
    /\ members' = <<>>
    /\ src_archives' = <<>>
    /\ pc' = "rename"
    /\ UNCHANGED <<fs, output, prior, tmpdir, tmpfile, rmFailed, failedAt,
                   result>>
    /\ UNCHANGED sessVars
    /\ UNCHANGED libs

\* the rename left out when the archive has no member
BuildRename_nonempty ==
    /\ pc = "rename"
    /\ \E ok \in BOOLEAN :
        IF ok
        THEN /\ fs' = IF any_entries
                      THEN (output :> Written(tmpfile)) @@ fs
                      ELSE fs
             /\ tmpfile' = NoFile
             /\ pc' = "close"
             /\ UNCHANGED <<src_archives, members, tmpdir, rmFailed, failedAt,
                            result>>
        ELSE Abort("fatal", "rename") /\ fs' = fs
    /\ UNCHANGED <<output, prior, any_entries>>
    /\ UNCHANGED sessVars
    /\ UNCHANGED libs

\* fs::rename(archive_tmpfile_path, output)
BuildRename ==
    /\ pc = "rename"
    /\ \E ok \in BOOLEAN :
        IF ok
        THEN /\ fs' = (output :> Written(tmpfile)) @@ fs
             /\ tmpfile' = NoFile
             /\ pc' = "close"
             /\ UNCHANGED <<src_archives, members, tmpdir, rmFailed, failedAt,
                    result>>
        ELSE Abort("fatal", "rename") /\ fs' = fs
    /\ UNCHANGED <<output, prior, any_entries>>
    /\ UNCHANGED sessVars
    /\ UNCHANGED libs

\* archive_tmpdir.close(), then Ok(any_entries)
BuildClose ==
    /\ pc = "close"
    /\ \E removed \in BOOLEAN :
        IF removed
        THEN /\ tmpdir' = "absent"
             /\ rmFailed' = rmFailed
             /\ failedAt' = failedAt
             /\ result' = IF any_entries THEN "true" ELSE "false"
             /\ pc' = "done"
        ELSE \* close() gives up the directory and returns the error
             /\ tmpdir' = tmpdir
             /\ rmFailed' = TRUE
             /\ failedAt' = "close"
             /\ result' = "fatal"
             /\ pc' = "fatal"
    /\ UNCHANGED <<fs, src_archives, output, prior, members, tmpfile,
                   any_entries>>
    /\ UNCHANGED sessVars
    /\ UNCHANGED libs

Build ==
    \/ BuildResolve
    \/ BuildTempDir
    \/ BuildCreate
    \/ BuildWrite
    \/ BuildWritten
    \/ BuildDrop
    \/ BuildRename
    \/ BuildClose

Next == AddFile \/ AddArchive \/ Build

Spec == Init /\ [][Next]_vars

\* ----------------------------------------------------- extract_bundled_libs
LibPaths == {<<"libA.a">>, <<"deps", "libB.a">>, <<"libC.rlib">>,
             <<"fat.a">>, <<"gone.a">>}
BundledNames == {"m1", "m2", "lib.rmeta"}
OutDir == <<"outdir">>

otherVars == <<sess, fs, src_archives, entries, pc, ncalls, ntemp, last,
               added, files, kept, output, prior, members, tmpdir, tmpfile,
               any_entries, rmFailed, failedAt, result>>

LibsError(tag) == [libs EXCEPT !.pc = "err", !.error = tag]

\* every member taken for a bundled library
BundledContains_all(names, name) == TRUE

\* bundled_lib_file_names.contains(&Symbol::intern(name))
BundledContains(names, name) == name \in names

\* the call, up to the loop: File::open, Mmap::map, ArchiveFile::parse
ExtractStart ==
    /\ libs.pc = "idle"
    /\ \E rlib \in LibPaths, names \in SUBSET BundledNames,
          canMap \in BOOLEAN :
        LET call == [libs EXCEPT !.rlib = rlib, !.names = names]
        IN  libs' =
              IF rlib \notin DOMAIN fs
              THEN [call EXCEPT !.pc = "err", !.error = "OpenFile"]
              ELSE IF ~canMap
              THEN [call EXCEPT !.pc = "err", !.error = "MmapFile"]
              ELSE IF fs[rlib].type # "ar"
              THEN [call EXCEPT !.pc = "err", !.error = "ParseArchive"]
              ELSE [call EXCEPT !.pc = "members", !.pos = 1]
    /\ UNCHANGED otherVars

\* one iteration of the loop over archive.members(); o is the outcome of
\* the calls into other code: "data" (entry.data fails), "section"
\* (search_for_section fails), "write" (std::fs::write fails) or "ok"
ExtractMember ==
    /\ libs.pc = "members"
    /\ libs.pos <= Len(fs[libs.rlib].members)
    /\ \E o \in {"ok", "data", "section", "write"} :
        LET m == fs[libs.rlib].members[libs.pos]
        IN  libs' =
              IF ~m.readable THEN LibsError("ReadEntry")
              ELSE IF o = "data" THEN LibsError("ArchiveMember")
              ELSE IF ~m.utf8 THEN LibsError("ConvertName")
              ELSE IF ~BundledContains(libs.names, m.name)
              THEN [libs EXCEPT !.pos = @ + 1]
              ELSE IF o = "section" THEN LibsError("ExtractSection")
              ELSE IF o = "write" THEN LibsError("WriteFile")
              ELSE [libs EXCEPT
                      !.pos = @ + 1,
                      !.out = Append(@, [path |-> Append(OutDir, m.name),
                                         from |-> m.file_range])]
    /\ UNCHANGED otherVars

\* the loop is over: Ok(())
ExtractReturn ==
    /\ libs.pc = "members"
    /\ libs.pos > Len(fs[libs.rlib].members)
    /\ libs' = [libs EXCEPT !.pc = "ok"]
    /\ UNCHANGED otherVars

NextLibs == ExtractStart \/ ExtractMember \/ ExtractReturn

SpecLibs == Init /\ [][NextLibs]_vars

\* ---------------------------------------------------------------- properties
\* what of an entry the properties compare
Key(e) == <<e.name, e.kind, e.file_range, e.path, e.g_from>>
Keys(es) == [i \in 1 .. Len(es) |-> Key(es[i])]
Tail2(es, n) == SubSeq(es, n + 1, Len(es))

IsCall == ncalls' = ncalls + 1

\* the entries a successful call contributes
Contribution(call, f) ==
    IF call.op = "add_file"
    THEN <<Key(FileEntry(Last(call.path), call.path))>>
    ELSE IF call.fresh
    THEN LET k == Kept(f[call.effective].members, call.skip)
         IN  [i \in 1 .. Len(k) |->
                <<k[i].name, "FromArchive", k[i].file_range, <<>>,
                  call.effective>>]
    ELSE <<>>

Names(es) == [i \in 1 .. Len(es) |-> es[i].name]
MemberNames(ms) == [i \in 1 .. Len(ms) |-> ms[i].member_name]

\* C1: every successful add_file / add_archive call appends its contribution
\* (one entry for add_file, the non-skipped members in container order for
\* add_archive) after the entries of the earlier calls, and build hands the
\* members to the encoder in the order of the entries.
OrderPreservation ==
    /\ [][(IsCall /\ last'.result = "ok") =>
            Keys(entries') = Keys(entries) \o Contribution(last', fs')]_vars
    /\ [](pc \in {"tempdir", "create", "write", "drop"} =>
            MemberNames(members) = Names(entries))
    /\ [](tmpfile.state \in {"partial", "complete"} =>
            MemberNames(tmpfile.members) = Names(entries))

\* add_file(A), add_archive(B) with members m1, lib.rmeta, add_file(C), and
\* the encoder has been handed A, m1, lib.rmeta, C
OrderPreservationWitness ==
    /\ tmpfile.state = "complete"
    /\ Len(entries) = 4
    /\ entries[1].path = <<"x.o">>
    /\ entries[4].path = <<"d", "x.o">>
    /\ MemberNames(tmpfile.members) = <<"x.o", "m1", "lib.rmeta", "x.o">>

\* C2: an add_archive call with a path for which add_archive has already
\* returned Ok (the file being readable) returns Ok and changes neither the
\* entries nor the retained source archives.
AddArchiveIdempotent ==
    [][(IsCall /\ last'.op = "add_archive" /\ last'.path \in added
            /\ last'.canOpen) =>
        (/\ last'.result = "ok"
         /\ entries' = entries
         /\ src_archives' = src_archives)]_vars

\* C3: from the call of build on, the output path holds what it held when
\* build was called, or, once the rename has succeeded, the complete new
\* archive; an incomplete archive is never there.
BuildAtomic ==
    output # <<>> =>
        LET c == ReadFile(fs, output)
        IN  /\ c.complete
            /\ \/ c = prior
               \/ /\ pc \in {"close", "done", "fatal"}
                  /\ failedAt \in {"none", "close"}
                  /\ c.type = "ar"
                  /\ c.id = "out"
                  /\ MemberNames(c.members) = Names(entries)

\* the encoder fails in the middle of writing over an existing output
BuildAtomicWitness ==
    /\ pc = "fatal"
    /\ failedAt = "write"
    /\ prior = ArA
    /\ entries # <<>>

\* C4: between operations every FromArchive entry's archive_index is below
\* the number of retained source archives and designates the archive the
\* member was read from.
FromArchiveValid ==
    pc = "accumulating" =>
        \A i \in 1 .. Len(entries) :
            entries[i].kind = "FromArchive" =>
                /\ entries[i].archive_index < Len(src_archives)
                /\ ArchiveAt(src_archives, entries[i].archive_index).path
                       = entries[i].g_from

\* C5: the temp file is completely written before the maps are released, and
\* when the rename is attempted the session holds no map.
MapsReleasedBeforeRename ==
    /\ pc = "drop" => tmpfile.state = "complete"
    /\ pc = "rename" => (tmpfile.state = "complete" /\ HeldMaps = {})
    /\ pc \in {"close", "done"} => HeldMaps = {}

\* a build over one of its own input archives and a standalone file is about
\* to rename
MapsReleasedWitness ==
    /\ pc = "rename"
    /\ output \in added
    /\ \E i \in 1 .. Len(entries) : entries[i].kind = "File"
    /\ \E i \in 1 .. Len(entries) : entries[i].kind = "FromArchive"

\* C6: an add_archive call appends no member that its skip closure rejects,
\* and when it maps a new archive it appends exactly the members the closure
\* lets through, in container order.
SkipCorrect ==
    [][(IsCall /\ last'.op = "add_archive") =>
        LET new == Tail2(entries', Len(entries))
        IN  /\ SubSeq(entries', 1, Len(entries)) = entries
            /\ \A i \in 1 .. Len(new) : new[i].name \notin last'.skip
            /\ last'.fresh =>
                /\ Names(new) =
                     Names(Kept(fs'[last'.effective].members, last'.skip))
                /\ [i \in 1 .. Len(new) |-> new[i].file_range] =
                     [i \in 1 .. Len(Kept(fs'[last'.effective].members,
                                          last'.skip)) |->
                        Kept(fs'[last'.effective].members,
                             last'.skip)[i].file_range]]_vars

\* an archive with m1 first was added with a closure that rejects m1
SkipCorrectWitness ==
    /\ last.op = "add_archive"
    /\ last.fresh
    /\ last.skip = {"m1"}
    /\ last.asked = <<"m1", "lib.rmeta">>
    /\ Names(entries) = <<"lib.rmeta">>

\* C7: when build has returned or aborted, neither the temporary directory
\* nor the temp file remains.
NoTempResidue ==
    pc \in {"done", "fatal", "panic"} =>
        (tmpdir = "absent" /\ tmpfile = NoFile)

\* C7 (amended): the same, unless a removal of the temporary directory
\* failed; the temp file is gone in any case once the rename has succeeded.
NoTempResidueUnlessRemovalFailed ==
    /\ (pc \in {"done", "fatal", "panic"} /\ ~rmFailed) =>
          (tmpdir = "absent" /\ tmpfile = NoFile)
    /\ (pc \in {"done", "fatal"} /\ failedAt \in {"none", "close"}) =>
          tmpfile = NoFile
    /\ pc = "done" => ~rmFailed

\* the rename failed and the directory was removed with the temp file
NoTempResidueWitness ==
    /\ pc = "fatal"
    /\ failedAt = "rename"
    /\ ~rmFailed
    /\ tmpdir = "absent"

\* build has been called
BuildCalled == output # <<>>

UnknownFormat ==
    sess.archive_format \notin {"gnu", "bsd", "darwin", "coff", "aix_big"}

\* C8: with an unrecognized archive_format, build aborts without I/O: no
\* file is mapped, no temporary directory or file is created, the file
\* system and in particular the output path stay as they were.
UnknownKindNoIO ==
    /\ [](UnknownFormat /\ BuildCalled =>
            /\ pc = "fatal"
            /\ failedAt = "kind"
            /\ members = <<>>
            /\ tmpdir = "absent"
            /\ tmpfile = NoFile
            /\ ReadFile(fs, output) = prior)
    /\ [][(UnknownFormat /\ ~BuildCalled /\ BuildCalled') =>
            (fs' = fs /\ pc' = "fatal")]_vars

\* build was called with an unrecognized format on a session holding a
\* standalone file and an archive member
UnknownKindWitness ==
    /\ UnknownFormat
    /\ pc = "fatal"
    /\ failedAt = "kind"
    /\ \E i \in 1 .. Len(entries) : entries[i].kind = "File"
    /\ \E i \in 1 .. Len(entries) : entries[i].kind = "FromArchive"

\* the extraction step has nothing to extract from the file at path p
NotApplicable(t, f, p) ==
    \/ TargetArch(t.arch) = "none"
    \/ ReadFile(f, p).type \notin {"fat32", "fat64"}
    \/ \A i \in 1 .. Len(ReadFile(f, p).arches) :
          ReadFile(f, p).arches[i].arch # TargetArch(t.arch)

\* C9: on a macOS target, when the extraction step has nothing to extract,
\* add_archive returns what it returns without that step, with the same
\* entries and retained source archives, and the files are left as they were.
FatNotApplicableNoEffect ==
    [][(IsCall /\ last'.op = "add_archive" /\ IsAppleMacosx(sess)
            /\ NotApplicable(sess, fs, last'.path)) =>
        LET r == AddEffective(entries, src_archives, fs, last'.path,
                              last'.skip, last'.canOpen)
        IN  /\ fs' = fs
            /\ last'.result = r.result
            /\ entries' = r.entries
            /\ src_archives' = r.src_archives]_vars

\* C10: when the extraction returns a path, that path names a new file that
\* holds exactly the data of the first listed slice tagged with the target
\* architecture, no other file has changed, and the path is the effective
\* archive path; when the container lists no slice for the target
\* architecture, the extraction returns "no match" without an error, no file
\* changes and the effective path is the original path.
FatSelection ==
    [][(IsCall /\ last'.op = "add_archive" /\ IsAppleMacosx(sess)
            /\ last'.canOpen
            /\ ReadFile(fs, last'.path).type \in {"fat32", "fat64"}
            /\ TargetArch(sess.arch) # "none") =>
        LET a == fs[last'.path].arches
            x == TargetArch(sess.arch)
        IN  /\ last'.extract = "some" =>
                /\ last'.effective \notin DOMAIN fs
                /\ DOMAIN fs' = DOMAIN fs \cup {last'.effective}
                /\ \A p \in DOMAIN fs : fs'[p] = fs[p]
                /\ \E i \in 1 .. Len(a) :
                      /\ a[i].arch = x
                      /\ \A j \in 1 .. (i - 1) : a[j].arch # x
                      /\ fs'[last'.effective] = a[i].data
            /\ (\A i \in 1 .. Len(a) : a[i].arch # x) =>
                /\ last'.extract = "none"
                /\ last'.effective = last'.path
                /\ fs' = fs
            /\ last'.extract = "none" =>
                (\A i \in 1 .. Len(a) : a[i].arch # x)]_vars

\* the aarch64 slice listed first was extracted from the 32-bit container
FatSelectionWitness ==
    /\ last.op = "add_archive"
    /\ last.path = <<"fat.a">>
    /\ last.extract = "some"
    /\ last.effective \in DOMAIN fs
    /\ fs[last.effective] = ArY
    /\ Names(entries) = <<"m2", "m1">>

\* C11: when only add_file has been called, for N paths, the encoder is
\* handed exactly N members, in call order, the i-th named by the base name
\* of the i-th path and made of the whole contents the file at that path has
\* when build resolves it; in any session a File entry's member is made of
\* the file's contents at build time.
StandaloneRoundTrip ==
    tmpfile.state \in {"partial", "complete"} =>
        /\ Len(files) = ncalls =>
            /\ Len(tmpfile.members) = Len(files)
            /\ \A i \in 1 .. Len(files) :
                  /\ tmpfile.members[i].member_name = Last(files[i])
                  /\ tmpfile.members[i].buf.path = files[i]
                  /\ tmpfile.members[i].buf.owned
        /\ \A i \in 1 .. Len(entries) :
              entries[i].kind = "File" =>
                  /\ tmpfile.members[i].buf.of = fs[entries[i].path].id
                  /\ tmpfile.members[i].buf.range = <<0, 0>>

\* two files with the same base name were added, nothing else, and the
\* encoder has written the archive
StandaloneRoundTripWitness ==
    /\ tmpfile.state = "complete"
    /\ ncalls = 2
    /\ files = << <<"d", "x.o">>, <<"x.o">> >>
    /\ tmpfile.members[1].buf.of = "y"
    /\ tmpfile.members[2].buf.of = "x"

\* C12: every add_file call returns, having appended exactly one File entry
\* named by the path's base name, with the earlier entries, the source
\* archives and the files left as they were.
AddFileNeverFails ==
    [][(IsCall /\ last'.op = "add_file") =>
        /\ last'.result = "ok"
        /\ pc' = "accumulating"
        /\ Len(entries') = Len(entries) + 1
        /\ SubSeq(entries', 1, Len(entries)) = entries
        /\ entries'[Len(entries')].kind = "File"
        /\ entries'[Len(entries')].name = Last(last'.path)
        /\ entries'[Len(entries')].path = last'.path
        /\ src_archives' = src_archives
        /\ fs' = fs]_vars

\* C13: a build that completes returns true exactly when the session held an
\* entry when build was called, which is exactly when the archive it wrote
\* has a member; it returns false exactly when there was no entry.
BuildReturnValue ==
    /\ pc = "done" =>
          /\ result \in {"true", "false"}
          /\ result = "true" <=> entries # <<>>
          /\ result = "true" <=> ReadFile(fs, output).members # <<>>
          /\ result = "false" <=> entries = <<>>
    /\ pc # "done" => result \in {"none", "fatal"}

\* a build of standalone files only has returned true
BuildReturnValueWitness ==
    /\ pc = "done"
    /\ result = "true"
    /\ src_archives = <<>>
    /\ added = {}
    /\ Len(entries) = 2

\* C14: no two retained source archives have the same path.
SourceArchivesUnique ==
    \A i, j \in 1 .. Len(src_archives) :
        i # j => src_archives[i].path # src_archives[j].path

\* add_archive was called with the path of an archive already retained
SourceArchivesUniqueWitness ==
    /\ last.op = "add_archive"
    /\ last.result = "ok"
    /\ ~last.fresh
    /\ last.effective = <<"libA.a">>
    /\ Len(src_archives) = 1
    /\ src_archives[1].path = <<"libA.a">>

\* C15: between operations the number of entries is the number of add_file
\* calls plus the number of members let through by skip in the calls that
\* retained a new archive.
EntryCount ==
    pc = "accumulating" => Len(entries) = Len(files) + kept

\* C16: every member handed to the encoder, and every member of the archive
\* written from them, has mtime 0, uid 0, gid 0 and mode 0644 (420).
FixedMetadata ==
    LET fixed(m) == m.mtime = 0 /\ m.uid = 0 /\ m.gid = 0 /\ m.perms = 420
    IN  /\ \A i \in 1 .. Len(members) : fixed(members[i])
        /\ \A i \in 1 .. Len(tmpfile.members) : fixed(tmpfile.members[i])
        /\ (pc \in {"close", "done"}) =>
              \A i \in 1 .. Len(fs[output].members) :
                  fixed(fs[output].members[i])

\* an archive of a standalone file and a member of a source archive has
\* been written and renamed
FixedMetadataWitness ==
    /\ pc = "done"
    /\ \E i \in 1 .. Len(fs[output].members) :
          fs[output].members[i].buf.owned
    /\ \E i \in 1 .. Len(fs[output].members) :
          ~fs[output].members[i].buf.owned

\* C18: an add_archive call that returns an error because the archive file
\* cannot be opened or mapped, or is not an archive, leaves the entries and
\* the retained source archives as they were.
OpenParseFailureNoEffect ==
    [][(/\ IsCall /\ last'.op = "add_archive" /\ last'.result = "err"
        /\ \/ ~Openable(fs', last'.effective, last'.canOpen)
           \/ ReadFile(fs', last'.effective).type # "ar") =>
        (entries' = entries /\ src_archives' = src_archives)]_vars

\* a session that holds entries and a source archive was given a file that
\* is not an archive
OpenParseFailureWitness ==
    /\ last.op = "add_archive"
    /\ last.result = "err"
    /\ last.canOpen
    /\ last.extract = "none"
    /\ last.effective = <<"fat.a">>
    /\ entries # <<>>
    /\ src_archives # <<>>

EmptyArchive == [type |-> "ar", id |-> "out", members |-> <<>>,
                 arches |-> <<>>, complete |-> TRUE]

\* C19: a build of a session without entries, with a recognized format,
\* goes through the temporary directory, the temp file, the encoder and the
\* rename like any other; when it has returned, the output path holds a
\* complete archive without members and the value returned is false.
EmptyBuildWrites ==
    entries = <<>> =>
        /\ pc \in {"drop", "rename"} =>
              (tmpdir = "present" /\ tmpfile.state = "complete"
               /\ tmpfile.members = <<>>)
        /\ pc \in {"close", "done"} => fs[output] = EmptyArchive
        /\ pc = "done" => (result = "false" /\ tmpdir = "absent")
        /\ (BuildCalled /\ ~UnknownFormat /\ failedAt = "none") =>
              pc \in {"tempdir", "create", "write", "drop", "rename",
                      "close", "done"}

\* an empty session was built over an existing file
EmptyBuildWitness ==
    /\ pc = "done"
    /\ entries = <<>>
    /\ result = "false"
    /\ prior = ArA
    /\ fs[output] = EmptyArchive

\* the members read before the first one whose entry or name fails to decode
Decoded(ms) ==
    IF \E k \in 1 .. Len(ms) : ~ms[k].readable \/ ~ms[k].utf8
    THEN SubSeq(ms, 1,
                (CHOOSE k \in 1 .. Len(ms) :
                    /\ ~ms[k].readable \/ ~ms[k].utf8
                    /\ \A j \in 1 .. (k - 1) :
                          ms[j].readable /\ ms[j].utf8) - 1)
    ELSE ms

\* C20: an add_archive call that maps a new archive calls skip once for each
\* member, in container order, up to the first member whose entry or name
\* fails to decode; a call that returns because the path is already retained
\* or because the file cannot be opened, mapped or parsed never calls skip.
SkipConsultedOnce ==
    [][(IsCall /\ last'.op = "add_archive") =>
        LET c == ReadFile(fs', last'.effective)
            early == \/ last'.extract = "err"
                     \/ AlreadyAdded(src_archives, last'.effective)
                     \/ ~Openable(fs', last'.effective, last'.canOpen)
                     \/ c.type # "ar"
        IN  /\ early => last'.asked = <<>>
            /\ ~early => last'.asked = Names(Decoded(c.members))
            /\ last'.fresh => last'.asked = Names(c.members)]_vars

\* skip was asked about both members of the extracted slice, in order
SkipConsultedWitness ==
    /\ last.op = "add_archive"
    /\ last.fresh
    /\ last.skip = {}
    /\ last.extract = "some"
    /\ last.asked = <<"m2", "m1">>

\* the members of ms, taken in order, whose name is in names
Expected(ms, names) ==
    LET in(m) == m.name \in names IN SelectSeq(ms, in)

\* C17: extract_bundled_libs goes through the members in container order
\* and has written outdir/name for exactly those of the members gone through
\* whose name is in the expected set; an error is the one of the stage that
\* failed at the member the loop is at, it ends the call, and the files
\* written before stay.  Ok is returned when all members are gone through.
BundledLibsExtraction ==
    /\ [](libs.pc \in {"members", "ok", "err"} /\ libs.pos > 0 =>
            LET ms == fs[libs.rlib].members
                e == Expected(SubSeq(ms, 1, libs.pos - 1), libs.names)
            IN  /\ libs.pos <= Len(ms) + 1
                /\ Len(libs.out) = Len(e)
                /\ \A i \in 1 .. Len(e) :
                      /\ libs.out[i].path = <<"outdir", e[i].name>>
                      /\ libs.out[i].from = e[i].file_range
                /\ libs.pc = "ok" => libs.pos = Len(ms) + 1
                /\ libs.pc = "err" =>
                      /\ libs.pos <= Len(ms)
                      /\ libs.error = "ReadEntry" <=> ~ms[libs.pos].readable
                      /\ libs.error = "ConvertName" => ~ms[libs.pos].utf8
                      /\ libs.error \in {"ExtractSection", "WriteFile"} =>
                            ms[libs.pos].name \in libs.names)
    /\ [](libs.pc = "err" /\ libs.pos = 0 =>
            (libs.out = <<>>
             /\ libs.error \in {"OpenFile", "MmapFile", "ParseArchive"}))
    /\ [][libs.pc \in {"ok", "err"} => libs' = libs]_vars

\* the first expected library was written, the write of the second failed
BundledLibsWitness ==
    /\ libs.pc = "err"
    /\ libs.error = "WriteFile"
    /\ libs.rlib = <<"libC.rlib">>
    /\ libs.pos = 2
    /\ libs.out = <<[path |-> <<"outdir", "m2">>, from |-> <<0, 10>>]>>
====
